---- MODULE Spec2Model ----
(***************************************************************************)
(* CeTuHashMap<K, V> (src/src/CeTuHashMap.h): a chained hash map with a    *)
(* raw bucket array (BucketsHolder) of singly linked Node chains.          *)
(*                                                                         *)
(* The heap is explicit: `nodes` maps a node address to its fields,        *)
(* `arrays` maps the address of a bucket array to its slots, and `tables`  *)
(* holds the fields of each CeTuHashMap object.  Address 0 is nullptr.     *)
(***************************************************************************)
EXTENDS Integers, Sequences, FiniteSets, TLC

VARIABLES
    nodes,      \* heap: address -> [key, value, next] of every allocated Node
    arrays,     \* heap: address -> sequence of slots (Node*) of every Node*[]
    tables,     \* table object -> [live, buckets (holder), currentSize, capacity]
    hashKind,   \* which std::hash<K> the instantiation uses
    abstract,   \* ghost: table object -> abstract key-to-value map
    last,       \* the last call made, with its arguments and its return value
    fault,      \* "none", or how the run ended on undefined behaviour
    script,     \* the calls of the opening script that are still to be made
    universe,   \* ghost: the keys the calls of this run can pass
    ops,        \* number of calls made after the opening script
    pre         \* history: nodes, arrays and tables as they were before the last call

vars == <<nodes, arrays, tables, hashKind, abstract, last, fault, script, universe, ops, pre>>

(***************************************************************************)
(* Bounds of the model and constants of the program.                       *)
(***************************************************************************)
MaxOps == 2
FillCount == 13
FillTwice == 26

defaultSize == 16
LoadFactorNum == 3
LoadFactorDen == 4
nullptr == 0

Tables == {1, 2}
OpKeys == {0, 16, 32}
Values == {1, 2}
\* A run opens with one of the Scripts, a fixed sequence of calls, and goes
\* on with up to MaxOps calls chosen freely.  A script inserts every key with
\* itself as the value, insert(i, i), as the loop of RehashTest does.
InsertCalls(t, keys) ==
    [i \in 1..Len(keys) |-> [op |-> "insert", t |-> t, key |-> keys[i]]]
Fill(n) == InsertCalls(1, [i \in 1..n |-> i - 1])
\* n inserts that begin with three keys of one bucket of a new table.
FillColliding(n) ==
    InsertCalls(1, <<0, 16, 32>>) \o InsertCalls(1, [i \in 1..(n - 3) |-> i])
Scripts ==
    { << >>,
      InsertCalls(1, <<0, 16, 32>>),
      Fill(FillCount),
      FillColliding(FillCount),
      Fill(FillTwice),
      InsertCalls(1, <<0, 16>>) \o <<[op |-> "construct", t |-> 2, key |-> 0]>>
          \o InsertCalls(2, <<32>>) }
\* The two-rehash fill is RehashTest's, which hashes with std::hash<int>; the
\* colliding hash is the one the tests give MyTestClass.
ScriptsOf(kind) ==
    IF kind = "identity" THEN Scripts ELSE Scripts \ {Fill(FillTwice)}
ScriptKeys(p) == {p[i].key : i \in {j \in 1..Len(p) : p[j].op = "insert"}}
HashKinds == {"identity", "constant"}

\* F applied to the value of v, which is computed once.
Then(v, F(_)) == CHOOSE r \in {F(x) : x \in {v}} : TRUE

nullopt == <<>>
make_optional(v) == <<v>>

\* std::hash<K>{}(key): the identity for int keys, and the constant hash the
\* tests give MyTestClass (std::hash<int>()(1)).
Hash(key) == IF hashKind = "identity" THEN key ELSE 1

World == [nodes |-> nodes, arrays |-> arrays, tables |-> tables]

\* operator new: the lowest free address.
NewAddress(heap) ==
    CHOOSE a \in 1..(Cardinality(DOMAIN heap) + 1) :
        a \notin DOMAIN heap /\ \A b \in 1..(a - 1) : b \in DOMAIN heap

\* operator delete.
Release(heap, addrs) == [a \in (DOMAIN heap) \ addrs |-> heap[a]]

\* new Node*[capacity](): every slot is nullptr.
NewBuckets(capacity) == [i \in 1..capacity |-> nullptr]

\* BucketsHolder() : capacity(0), buckets(nullptr)
EmptyHolder == [capacity |-> 0, buckets |-> nullptr]

\* A table object whose constructor has not run (or whose destructor has).
NoTable == [live |-> FALSE, buckets |-> EmptyHolder, currentSize |-> 0, capacity |-> 0]

\* The nodes of the chain that starts at p, in traversal order.
RECURSIVE ChainOf(_, _)
ChainOf(heap, p) ==
    IF p = nullptr THEN <<>> ELSE <<p>> \o ChainOf(heap, heap[p].next)

\* Mutant of FindNode: only the head of the chain is compared.
FindNode_headOnly(heap, current, key) ==
    IF current = nullptr THEN nullptr
    ELSE IF heap[current].key = key THEN current
    ELSE nullptr

\* The while loops of insert, lookup and erase: the first node of the chain at
\* `current` whose key equals `key`, or nullptr.
RECURSIVE FindNode(_, _, _)
FindNode(heap, current, key) ==
    IF current = nullptr THEN nullptr
    ELSE IF heap[current].key = key THEN current
    ELSE FindNode(heap, heap[current].next, key)

\* size()
size(w, t) == w.tables[t].currentSize

\* CeTuHashMap::hash; evaluated only where capacity # 0.
hash(w, t, key) == Hash(key) % w.tables[t].capacity

\* buckets[index] of table t (slot index + 1 of the sequence).
Slot(w, t, index) == w.arrays[w.tables[t].buckets.buckets][index + 1]

\* hash(key) and the access buckets[hash(key)] are defined: the modulus is
\* not zero and the slot lies inside an allocated array.
Addressable(w, t, key) ==
    /\ w.tables[t].capacity # 0
    /\ w.tables[t].buckets.buckets # nullptr
    /\ hash(w, t, key) < Len(w.arrays[w.tables[t].buckets.buckets])

(***************************************************************************)
(* BucketsHolder                                                           *)
(***************************************************************************)
\* BucketsHolder(BucketsHolder&& other): takes other's fields, empties other.
HolderMoveCtor(other) == [self |-> other, other |-> EmptyHolder]

\* BucketsHolder::operator=(BucketsHolder&&) between two distinct holders:
\* swaps capacity and buckets.
HolderMoveAssign(self, other) == [self |-> other, other |-> self]

\* Mutant of HolderClear: the array is deleted, the nodes of its chains are not.
HolderClear_arrayOnly(w, h) ==
    IF h.buckets # nullptr
    THEN [w EXCEPT !.arrays = Release(w.arrays, {h.buckets})]
    ELSE w

\* BucketsHolder::clear, run by ~BucketsHolder: deletes every node of every
\* chain of slots 0..capacity-1, then the array.
HolderClear(w, h) ==
    IF h.buckets # nullptr
    THEN LET arr == w.arrays[h.buckets]
             dead == UNION {{c[j] : j \in 1..Len(c)} :
                            c \in {ChainOf(w.nodes, arr[i]) : i \in 1..h.capacity}}
         IN [w EXCEPT !.nodes = Release(w.nodes, dead),
                      !.arrays = Release(w.arrays, {h.buckets})]
    ELSE w

\* std::swap(a, b) on two holders: tmp(move(a)); a = move(b); b = move(tmp).
HolderSwap(a, b) ==
    LET s1 == HolderMoveCtor(a)
        s2 == HolderMoveAssign(s1.other, b)
        s3 == HolderMoveAssign(s2.other, s1.self)
    IN [a |-> s2.self, b |-> s3.self, tmp |-> s3.other]

\* Mutant of RehashNode: the new index is taken modulo the old capacity.
RehashNode_oldIndex(s, newCapacity, current) ==
    LET newIndex == Hash(s.nodes[current].key) % (newCapacity \div 2)
    IN [nodes |-> [s.nodes EXCEPT ![current].next = s.newBuckets[newIndex + 1]],
        newBuckets |-> [s.newBuckets EXCEPT ![newIndex + 1] = current]]

\* Mutant of RehashNode: the node does not take over the chain it is put on.
RehashNode_dropsChain(s, newCapacity, current) ==
    LET newIndex == Hash(s.nodes[current].key) % newCapacity
    IN [nodes |-> [s.nodes EXCEPT ![current].next = nullptr],
        newBuckets |-> [s.newBuckets EXCEPT ![newIndex + 1] = current]]

\* One turn of the while loop of BucketsHolder::rehash: node `current` is
\* pushed on the front of its chain in newBuckets.  s is [nodes, newBuckets].
RehashNode(s, newCapacity, current) ==
    LET newIndex == Hash(s.nodes[current].key) % newCapacity
    IN [nodes |-> [s.nodes EXCEPT ![current].next = s.newBuckets[newIndex + 1]],
        newBuckets |-> [s.newBuckets EXCEPT ![newIndex + 1] = current]]

\* Mutant of RehashChain: the old chain is relinked from its tail to its head.
RECURSIVE RehashChain_tailFirst(_, _, _, _, _)
RehashChain_tailFirst(s, newCapacity, chain, lo, hi) ==
    IF lo >= hi THEN s
    ELSE IF hi = lo + 1 THEN RehashNode(s, newCapacity, chain[hi])
    ELSE Then(RehashChain_tailFirst(s, newCapacity, chain, (lo + hi) \div 2, hi),
              LAMBDA s1 : RehashChain_tailFirst(s1, newCapacity, chain, lo,
                                                (lo + hi) \div 2))

\* The while loop of BucketsHolder::rehash on one old chain: its nodes
\* chain[lo+1..hi] are relinked in chain order.  The loop reads current->next
\* before it relinks current, so it visits the chain as it stood on entry.
RECURSIVE RehashChain(_, _, _, _, _)
RehashChain(s, newCapacity, chain, lo, hi) ==
    IF lo >= hi THEN s
    ELSE IF hi = lo + 1 THEN RehashNode(s, newCapacity, chain[hi])
    ELSE Then(RehashChain(s, newCapacity, chain, lo, (lo + hi) \div 2),
              LAMBDA s1 : RehashChain(s1, newCapacity, chain, (lo + hi) \div 2, hi))

\* The for loop of BucketsHolder::rehash over the old slots lo..hi-1, in
\* index order (the range is split in two, first half first).
RECURSIVE RehashSlots(_, _, _, _, _)
RehashSlots(s, old, newCapacity, lo, hi) ==
    IF lo >= hi THEN s
    ELSE IF hi = lo + 1
    THEN Then(ChainOf(s.nodes, old[lo + 1]),
              LAMBDA chain : RehashChain(s, newCapacity, chain, 0, Len(chain)))
    ELSE Then(RehashSlots(s, old, newCapacity, lo, (lo + hi) \div 2),
              LAMBDA s1 : RehashSlots(s1, old, newCapacity, (lo + hi) \div 2, hi))

\* Mutant of BucketsHolder_rehash: the holder keeps its old capacity.
BucketsHolder_rehash_keepsCapacity(w, t, newCapacity) ==
    LET h == w.tables[t].buckets
        old == w.arrays[h.buckets]
        newAddr == NewAddress(w.arrays)
        moved == RehashSlots([nodes |-> w.nodes,
                              newBuckets |-> NewBuckets(newCapacity)],
                             old, newCapacity, 0, h.capacity)
    IN [w EXCEPT !.nodes = moved.nodes,
                 !.arrays = (newAddr :> moved.newBuckets) @@ Release(w.arrays, {h.buckets}),
                 !.tables[t].buckets = [capacity |-> h.capacity, buckets |-> newAddr]]

\* BucketsHolder::rehash(newCapacity) on the holder of table t.
BucketsHolder_rehash(w, t, newCapacity) ==
    LET h == w.tables[t].buckets
        old == w.arrays[h.buckets]
        newAddr == NewAddress(w.arrays)
        moved == RehashSlots([nodes |-> w.nodes,
                              newBuckets |-> NewBuckets(newCapacity)],
                             old, newCapacity, 0, h.capacity)
    IN [w EXCEPT !.nodes = moved.nodes,
                 !.arrays = (newAddr :> moved.newBuckets) @@ Release(w.arrays, {h.buckets}),
                 !.tables[t].buckets = [capacity |-> newCapacity, buckets |-> newAddr]]

(***************************************************************************)
(* CeTuHashMap                                                             *)
(***************************************************************************)
\* Mutant of rehash: the table keeps its old capacity.
rehash_staleCapacity(w, t) ==
    BucketsHolder_rehash(w, t, w.tables[t].capacity * 2)

\* CeTuHashMap::rehash
rehash(w, t) ==
    LET newCapacity == w.tables[t].capacity * 2
        w1 == BucketsHolder_rehash(w, t, newCapacity)
    IN [w1 EXCEPT !.tables[t].capacity = newCapacity]

\* Mutant of growIfLoaded: the table never grows.
growIfLoaded_never(w, t) == w

\* if(currentSize > capacity * loadFactor) rehash();
growIfLoaded(w, t) ==
    IF LoadFactorDen * w.tables[t].currentSize > LoadFactorNum * w.tables[t].capacity
    THEN rehash(w, t)
    ELSE w

\* Mutant of insertNew: currentSize is not incremented.
insertNew_forgetsCount(w, t, index, key, value) ==
    LET a == w.tables[t].buckets.buckets
        newNode == NewAddress(w.nodes)
        n == [key |-> key, value |-> value, next |-> w.arrays[a][index + 1]]
    IN [w EXCEPT !.nodes = (newNode :> n) @@ w.nodes,
                 !.arrays[a][index + 1] = newNode]

\* Mutant of insertNew: the new node is linked behind the head of the chain.
insertNew_behindHead(w, t, index, key, value) ==
    LET a == w.tables[t].buckets.buckets
        head == w.arrays[a][index + 1]
        newNode == NewAddress(w.nodes)
    IN IF head = nullptr
       THEN [w EXCEPT !.nodes = (newNode :> [key |-> key, value |-> value,
                                             next |-> nullptr]) @@ w.nodes,
                      !.arrays[a][index + 1] = newNode,
                      !.tables[t].currentSize = @ + 1]
       ELSE [w EXCEPT !.nodes = (newNode :> [key |-> key, value |-> value,
                                             next |-> w.nodes[head].next])
                                @@ [w.nodes EXCEPT ![head].next = newNode],
                      !.tables[t].currentSize = @ + 1]

\* The tail of insert: a new node becomes the head of the chain at index.
insertNew(w, t, index, key, value) ==
    LET a == w.tables[t].buckets.buckets
        newNode == NewAddress(w.nodes)
        n == [key |-> key, value |-> value, next |-> w.arrays[a][index + 1]]
    IN [w EXCEPT !.nodes = (newNode :> n) @@ w.nodes,
                 !.arrays[a][index + 1] = newNode,
                 !.tables[t].currentSize = @ + 1]

\* Mutant of insert: an existing key keeps its old value.
insert_keepsOldValue(w, t, key, value) ==
    LET w1 == growIfLoaded(w, t)
        index == hash(w1, t, key)
        current == FindNode(w1.nodes, Slot(w1, t, index), key)
    IN IF current # nullptr
       THEN w1
       ELSE insertNew(w1, t, index, key, value)

\* Mutant of insert: the chain is not scanned for the key.
insert_noScan(w, t, key, value) ==
    LET w1 == growIfLoaded(w, t)
    IN insertNew(w1, t, hash(w1, t, key), key, value)

\* Mutant of insert: the chain is scanned first and the table grows only
\* when the key is new.
insert_scanFirst(w, t, key, value) ==
    LET current == FindNode(w.nodes, Slot(w, t, hash(w, t, key)), key)
        w1 == growIfLoaded(w, t)
    IN IF current # nullptr
       THEN [w EXCEPT !.nodes[current].value = value]
       ELSE insertNew(w1, t, hash(w1, t, key), key, value)

\* insert(key, value), where hash(key) and buckets[index] are defined.
insert(w, t, key, value) ==
    LET w1 == growIfLoaded(w, t)
        index == hash(w1, t, key)
        current == FindNode(w1.nodes, Slot(w1, t, index), key)
    IN IF current # nullptr
       THEN [w1 EXCEPT !.nodes[current].value = value]
       ELSE insertNew(w1, t, index, key, value)

insertDefined(w, t, key) == Addressable(growIfLoaded(w, t), t, key)

\* lookup(key)
lookup(w, t, key) ==
    IF w.tables[t].currentSize = 0 THEN nullopt
    ELSE LET index == hash(w, t, key)
             current == FindNode(w.nodes, Slot(w, t, index), key)
         IN IF current # nullptr
            THEN make_optional(w.nodes[current].value)
            ELSE nullopt

\* Mutant of lookupDefined: lookup hashes the key before it looks at the size.
lookupDefined_noGuard(w, t, key) == Addressable(w, t, key)

\* lookup(key) is defined: it returns before hash(key) when the table is empty.
lookupDefined(w, t, key) ==
    w.tables[t].currentSize = 0 \/ Addressable(w, t, key)

\* The while loop of erase, with its trailing pointer.
RECURSIVE FindWithPrev(_, _, _, _)
FindWithPrev(heap, current, prev, key) ==
    IF current = nullptr THEN [current |-> nullptr, prev |-> prev]
    ELSE IF heap[current].key = key THEN [current |-> current, prev |-> prev]
    ELSE FindWithPrev(heap, heap[current].next, current, key)

\* Mutant of eraseNode: the successor always becomes the head of the bucket.
eraseNode_headOnly(w, t, index, current, prev) ==
    LET a == w.tables[t].buckets.buckets
        unlinked == [w EXCEPT !.arrays[a][index + 1] = w.nodes[current].next]
    IN [unlinked EXCEPT !.nodes = Release(unlinked.nodes, {current}),
                        !.tables[t].currentSize = @ - 1]

\* The body of `if(current->key == key)` in erase: unlink, delete, count.
eraseNode(w, t, index, current, prev) ==
    LET a == w.tables[t].buckets.buckets
        unlinked == IF prev = nullptr
                    THEN [w EXCEPT !.arrays[a][index + 1] = w.nodes[current].next]
                    ELSE [w EXCEPT !.nodes[prev].next = w.nodes[current].next]
    IN [unlinked EXCEPT !.nodes = Release(unlinked.nodes, {current}),
                        !.tables[t].currentSize = @ - 1]

\* erase(key)
erase(w, t, key) ==
    IF w.tables[t].currentSize = 0 THEN w
    ELSE LET index == hash(w, t, key)
             found == FindWithPrev(w.nodes, Slot(w, t, index), nullptr, key)
         IN IF found.current = nullptr THEN w
            ELSE eraseNode(w, t, index, found.current, found.prev)

eraseDefined(w, t, key) ==
    w.tables[t].currentSize = 0 \/ Addressable(w, t, key)

\* One turn of the inner loop of copy: a new Node holding otherCurrent's key
\* and value is linked after prev, or into slot i of tempBuckets when it is
\* the first of its chain.  s is [w, prev].
copyNode(s, tempAddr, i, otherCurrent) ==
    LET w == s.w
        current == NewAddress(w.nodes)
        n == [key |-> w.nodes[otherCurrent].key,
              value |-> w.nodes[otherCurrent].value,
              next |-> nullptr]
        w1 == [w EXCEPT !.nodes = (current :> n) @@ w.nodes]
    IN [w |-> IF s.prev = nullptr
              THEN [w1 EXCEPT !.arrays[tempAddr][i + 1] = current]
              ELSE [w1 EXCEPT !.nodes[s.prev].next = current],
        prev |-> current]

\* The inner loop of copy on one chain of other: its nodes chain[lo+1..hi]
\* are cloned in chain order.
RECURSIVE copyChain(_, _, _, _, _, _)
copyChain(s, tempAddr, i, chain, lo, hi) ==
    IF lo >= hi THEN s
    ELSE IF hi = lo + 1 THEN copyNode(s, tempAddr, i, chain[hi])
    ELSE Then(copyChain(s, tempAddr, i, chain, lo, (lo + hi) \div 2),
              LAMBDA s1 : copyChain(s1, tempAddr, i, chain, (lo + hi) \div 2, hi))

\* The for loop of copy over the slots lo..hi-1 of other's array, in index
\* order (the range is split in two, first half first).
RECURSIVE copyBuckets(_, _, _, _, _)
copyBuckets(w, tempAddr, other, lo, hi) ==
    IF lo >= hi THEN w
    ELSE IF hi = lo + 1
    THEN Then(ChainOf(w.nodes, Slot(w, other, lo)),
              LAMBDA chain : copyChain([w |-> w, prev |-> nullptr], tempAddr, lo,
                                       chain, 0, Len(chain)).w)
    ELSE Then(copyBuckets(w, tempAddr, other, lo, (lo + hi) \div 2),
              LAMBDA w1 : copyBuckets(w1, tempAddr, other, (lo + hi) \div 2, hi))

\* Mutant of copy: the table takes other's bucket array instead of a clone.
copy_shallow(w, t, other) ==
    [w EXCEPT !.tables[t].buckets = w.tables[other].buckets]

\* CeTuHashMap::copy(other): build the clone in tempBuckets(capacity), move-
\* assign it into buckets (a swap), and let ~BucketsHolder clear what
\* tempBuckets then holds.
copy(w, t, other) ==
    LET capacity == w.tables[t].capacity
        tempAddr == NewAddress(w.arrays)
        w1 == [w EXCEPT !.arrays = (tempAddr :> NewBuckets(capacity)) @@ w.arrays]
        w2 == copyBuckets(w1, tempAddr, other, 0, capacity)
        tempBuckets == [capacity |-> capacity, buckets |-> tempAddr]
        swapped == HolderMoveAssign(w2.tables[t].buckets, tempBuckets)
        w3 == [w2 EXCEPT !.tables[t].buckets = swapped.self]
    IN HolderClear(w3, swapped.other)

\* CeTuHashMap()
construct(w, t) ==
    LET addr == NewAddress(w.arrays)
    IN [w EXCEPT !.arrays = (addr :> NewBuckets(defaultSize)) @@ w.arrays,
                 !.tables[t] = [live |-> TRUE,
                                buckets |-> [capacity |-> defaultSize, buckets |-> addr],
                                currentSize |-> 0,
                                capacity |-> defaultSize]]

\* ~CeTuHashMap(): the body is empty; ~BucketsHolder runs clear().
destroy(w, t) ==
    LET w1 == HolderClear(w, w.tables[t].buckets)
    IN [w1 EXCEPT !.tables[t] = NoTable]

\* CeTuHashMap(const CeTuHashMap& other): buckets is default-constructed.
copyConstruct(w, t, other) ==
    LET w1 == [w EXCEPT !.tables[t] = [live |-> TRUE,
                                       buckets |-> EmptyHolder,
                                       currentSize |-> w.tables[other].currentSize,
                                       capacity |-> w.tables[other].capacity]]
    IN copy(w1, t, other)

\* Mutant of copyAssign: currentSize is not taken from other.
copyAssign_keepsSize(w, t, other) ==
    IF t = other THEN w
    ELSE LET w1 == [w EXCEPT !.tables[t].capacity = w.tables[other].capacity]
         IN copy(w1, t, other)

\* Mutant of copyAssign: no test for this == &other.
copyAssign_noSelfTest(w, t, other) ==
    LET w1 == [w EXCEPT !.tables[t].capacity = w.tables[other].capacity,
                        !.tables[t].currentSize = w.tables[other].currentSize]
    IN copy(w1, t, other)

\* operator=(const CeTuHashMap& other)
copyAssign(w, t, other) ==
    IF t = other THEN w
    ELSE LET w1 == [w EXCEPT !.tables[t].capacity = w.tables[other].capacity,
                             !.tables[t].currentSize = w.tables[other].currentSize]
         IN copy(w1, t, other)

\* Mutant of moveConstruct: currentSize is not taken from other.
moveConstruct_dropsSize(w, t, other) ==
    LET m == HolderMoveCtor(w.tables[other].buckets)
    IN [w EXCEPT !.tables[t] = [live |-> TRUE,
                                buckets |-> m.self,
                                currentSize |-> 0,
                                capacity |-> w.tables[other].capacity],
                 !.tables[other].buckets = m.other,
                 !.tables[other].currentSize = 0,
                 !.tables[other].capacity = 0]

\* CeTuHashMap(CeTuHashMap&& other)
moveConstruct(w, t, other) ==
    LET m == HolderMoveCtor(w.tables[other].buckets)
    IN [w EXCEPT !.tables[t] = [live |-> TRUE,
                                buckets |-> m.self,
                                currentSize |-> w.tables[other].currentSize,
                                capacity |-> w.tables[other].capacity],
                 !.tables[other].buckets = m.other,
                 !.tables[other].currentSize = 0,
                 !.tables[other].capacity = 0]

\* Mutant of moveAssign: currentSize is not swapped.
moveAssign_keepsSizes(w, t, other) ==
    IF t = other THEN w
    ELSE LET sw == HolderSwap(w.tables[t].buckets, w.tables[other].buckets)
             w1 == [w EXCEPT !.tables[t].buckets = sw.a,
                             !.tables[other].buckets = sw.b,
                             !.tables[t].capacity = w.tables[other].capacity,
                             !.tables[other].capacity = w.tables[t].capacity]
         IN HolderClear(w1, sw.tmp)

\* operator=(CeTuHashMap&& other)
moveAssign(w, t, other) ==
    IF t = other THEN w
    ELSE LET sw == HolderSwap(w.tables[t].buckets, w.tables[other].buckets)
             w1 == [w EXCEPT !.tables[t].buckets = sw.a,
                             !.tables[other].buckets = sw.b,
                             !.tables[t].currentSize = w.tables[other].currentSize,
                             !.tables[other].currentSize = w.tables[t].currentSize,
                             !.tables[t].capacity = w.tables[other].capacity,
                             !.tables[other].capacity = w.tables[t].capacity]
         IN HolderClear(w1, sw.tmp)

(***************************************************************************)
(* The state machine: one action per public operation of CeTuHashMap.      *)
(***************************************************************************)
\* What lookup returns for every key: the observable contents of table t.
Contents(w, t) == [k \in universe |-> lookup(w, t, k)]

AbsEmpty == [k \in universe |-> nullopt]

Call(op, t, other, key, value, ret) ==
    [op |-> op, t |-> t, other |-> other, key |-> key, value |-> value, ret |-> ret]

\* The outcomes of undefined behaviour in hash(key) / buckets[index]: with
\* capacity 0 the modulus traps or yields a wild index; otherwise the access
\* leaves the array.  The call does not return in either case.
UBOutcomes(w, t) ==
    IF w.tables[t].capacity = 0
    THEN {"divide_by_zero", "out_of_bounds"}
    ELSE {"out_of_bounds"}

Running == fault = "none" /\ script = << >> /\ ops < MaxOps

Commit(w) ==
    /\ pre' = World
    /\ nodes' = w.nodes
    /\ arrays' = w.arrays
    /\ tables' = w.tables

Counted == ops' = ops + 1 /\ UNCHANGED <<hashKind, script, universe>>

\* The call hit undefined behaviour: the run ends here.
Crash(outcomes) ==
    /\ fault' \in outcomes
    /\ pre' = World
    /\ UNCHANGED <<nodes, arrays, tables, abstract>>

\* Table 1 is constructed; the other table objects are not.
Init ==
    /\ hashKind \in HashKinds
    /\ script \in ScriptsOf(hashKind)
    /\ universe = OpKeys \cup ScriptKeys(script)
    /\ pre = [nodes |-> << >>, arrays |-> << >>, tables |-> [t \in Tables |-> NoTable]]
    /\ \E w \in {construct(pre, 1)} :
          nodes = w.nodes /\ arrays = w.arrays /\ tables = w.tables
    /\ abstract = [t \in Tables |-> AbsEmpty]
    /\ last = Call("construct", 1, 0, 0, 0, nullopt)
    /\ fault = "none"
    /\ ops = 0

Construct(t) ==
    /\ Running
    /\ ~tables[t].live
    /\ Commit(construct(World, t))
    /\ abstract' = [abstract EXCEPT ![t] = AbsEmpty]
    /\ last' = Call("construct", t, 0, 0, 0, nullopt)
    /\ Counted
    /\ UNCHANGED fault

Destroy(t) ==
    /\ Running
    /\ tables[t].live
    /\ Commit(destroy(World, t))
    /\ abstract' = [abstract EXCEPT ![t] = AbsEmpty]
    /\ last' = Call("destroy", t, 0, 0, 0, nullopt)
    /\ Counted
    /\ UNCHANGED fault

\* After a copy or a move the abstract maps are read back from the tables.
Resync(w, ts) ==
    abstract' = [t \in Tables |-> IF t \in ts THEN Contents(w, t) ELSE abstract[t]]

CopyConstruct(t, other) ==
    /\ Running
    /\ ~tables[t].live /\ tables[other].live
    /\ \E w \in {copyConstruct(World, t, other)} : Commit(w) /\ Resync(w, {t})
    /\ last' = Call("copyConstruct", t, other, 0, 0, nullopt)
    /\ Counted
    /\ UNCHANGED fault

CopyAssign(t, other) ==
    /\ Running
    /\ tables[t].live /\ tables[other].live
    /\ \E w \in {copyAssign(World, t, other)} : Commit(w) /\ Resync(w, {t})
    /\ last' = Call("copyAssign", t, other, 0, 0, nullopt)
    /\ Counted
    /\ UNCHANGED fault

MoveConstruct(t, other) ==
    /\ Running
    /\ ~tables[t].live /\ tables[other].live
    /\ \E w \in {moveConstruct(World, t, other)} : Commit(w) /\ Resync(w, {t, other})
    /\ last' = Call("moveConstruct", t, other, 0, 0, nullopt)
    /\ Counted
    /\ UNCHANGED fault

MoveAssign(t, other) ==
    /\ Running
    /\ tables[t].live /\ tables[other].live
    /\ \E w \in {moveAssign(World, t, other)} : Commit(w) /\ Resync(w, {t, other})
    /\ last' = Call("moveAssign", t, other, 0, 0, nullopt)
    /\ Counted
    /\ UNCHANGED fault

\* The call insert(key, value) on table t.
InsertCall(t, key, value) ==
    /\ last' = Call("insert", t, 0, key, value, nullopt)
    /\ IF insertDefined(World, t, key)
       THEN /\ \E w \in {insert(World, t, key, value)} : Commit(w)
            /\ abstract' = [abstract EXCEPT ![t][key] = make_optional(value)]
            /\ UNCHANGED fault
       ELSE Crash(UBOutcomes(growIfLoaded(World, t), t))

\* The next call of the script is an insert: table.insert(i, i).
ScriptInsert ==
    /\ fault = "none"
    /\ script # << >>
    /\ Head(script).op = "insert"
    /\ InsertCall(Head(script).t, Head(script).key, Head(script).key)
    /\ script' = Tail(script)
    /\ UNCHANGED <<hashKind, universe, ops>>

\* The next call of the script declares a table: CeTuHashMap<K, V> table;
ScriptConstruct ==
    /\ fault = "none"
    /\ script # << >>
    /\ Head(script).op = "construct"
    /\ Commit(construct(World, Head(script).t))
    /\ abstract' = [abstract EXCEPT ![Head(script).t] = AbsEmpty]
    /\ last' = Call("construct", Head(script).t, 0, 0, 0, nullopt)
    /\ script' = Tail(script)
    /\ UNCHANGED <<hashKind, universe, ops, fault>>

Insert(t, key, value) ==
    /\ Running
    /\ tables[t].live
    /\ InsertCall(t, key, value)
    /\ Counted

\* Mutant of Lookup: the entry found is taken out of the table.
Lookup_takes(t, key) ==
    /\ Running
    /\ tables[t].live
    /\ lookupDefined(World, t, key)
    /\ last' = Call("lookup", t, 0, key, 0, lookup(World, t, key))
    /\ Commit(erase(World, t, key))
    /\ UNCHANGED <<abstract, fault>>
    /\ Counted

\* The call lookup(key) on table t: it writes to no node, slot or field.
Lookup(t, key) ==
    /\ Running
    /\ tables[t].live
    /\ IF lookupDefined(World, t, key)
       THEN /\ last' = Call("lookup", t, 0, key, 0, lookup(World, t, key))
            /\ pre' = World
            /\ UNCHANGED <<nodes, arrays, tables, abstract, fault>>
       ELSE /\ last' = Call("lookup", t, 0, key, 0, nullopt)
            /\ Crash(UBOutcomes(World, t))
    /\ Counted

\* The caller assigns to the std::optional<V> the last lookup returned.  The
\* optional was built by std::make_optional(current->value) and returned by
\* value, so the assignment reaches the caller's object only.
AssignResult(value) ==
    /\ Running
    /\ last.op = "lookup"
    /\ last.ret # nullopt
    /\ last' = [last EXCEPT !.op = "assignResult", !.value = value,
                            !.ret = make_optional(value)]
    /\ pre' = World
    /\ UNCHANGED <<nodes, arrays, tables, abstract, fault>>
    /\ Counted

Erase(t, key) ==
    /\ Running
    /\ tables[t].live
    /\ last' = Call("erase", t, 0, key, 0, nullopt)
    /\ IF eraseDefined(World, t, key)
       THEN /\ \E w \in {erase(World, t, key)} : Commit(w)
            /\ abstract' = [abstract EXCEPT ![t][key] = nullopt]
            /\ UNCHANGED fault
       ELSE Crash(UBOutcomes(World, t))
    /\ Counted

Next ==
    \/ ScriptInsert
    \/ ScriptConstruct
    \/ \E t \in Tables : Construct(t)
    \/ \E t \in Tables : Destroy(t)
    \/ \E t, other \in Tables : CopyConstruct(t, other)
    \/ \E t, other \in Tables : CopyAssign(t, other)
    \/ \E t, other \in Tables : MoveConstruct(t, other)
    \/ \E t, other \in Tables : MoveAssign(t, other)
    \/ \E t \in Tables, key \in OpKeys, value \in Values : Insert(t, key, value)
    \/ \E t \in Tables, key \in OpKeys : Lookup(t, key)
    \/ \E value \in Values : AssignResult(value)
    \/ \E t \in Tables, key \in OpKeys : Erase(t, key)

Spec == Init /\ [][Next]_vars

(***************************************************************************)
(* Observations used by the properties.                                    *)
(***************************************************************************)
\* The chains of table t, one per slot of its bucket array (none when the
\* holder has no array).
Chains(w, t) ==
    LET h == w.tables[t].buckets
    IN IF h.buckets = nullptr THEN << >>
       ELSE [i \in 1..h.capacity |-> ChainOf(w.nodes, w.arrays[h.buckets][i])]

\* The nodes reachable by traversing all chains of table t.
EntryNodes(w, t) ==
    LET c == Chains(w, t)
    IN UNION {{c[i][j] : j \in 1..Len(c[i])} : i \in 1..Len(c)}

\* The number of entries met by traversing all chains of table t: one per
\* position j of chain i.
EntryCount(w, t) ==
    LET chains == Chains(w, t)
    IN Cardinality(UNION {{<<i, j>> : j \in 1..Len(chains[i])} :
                          i \in 1..Len(chains)})

\* The keys stored in table t.
StoredKeys(w, t) == {w.nodes[n].key : n \in EntryNodes(w, t)}

Live == {t \in Tables : tables[t].live}

\* The last call returned (it did not end in undefined behaviour).
Returned(op) == last.op = op /\ fault = "none"

(***************************************************************************)
(* C1: size() equals the number of entries reachable by traversing all     *)
(* chains, which is the number of distinct keys stored and the number of   *)
(* keys the calls so far have left in the table, in every state reached by *)
(* inserts (those of the scripts included, across their rehashes), erases, *)
(* copies and moves.                                                       *)
(***************************************************************************)
C1_SizeIsEntryCount ==
    \A t \in Live :
        /\ size(World, t) = EntryCount(World, t)
        /\ size(World, t) = Cardinality(StoredKeys(World, t))
        /\ size(World, t) = Cardinality({k \in universe : abstract[t][k] # nullopt})

\* An insert of a new key that made the table grow.
C1_Witness ==
    /\ Returned("insert")
    /\ tables[last.t].capacity = 2 * pre.tables[last.t].capacity
    /\ size(World, last.t) = size(pre, last.t) + 1
    /\ size(World, last.t) > defaultSize

(***************************************************************************)
(* C2: under either hash function, lookup agrees with the abstract map     *)
(* driven by the same insert and erase calls: for every key it returns the *)
(* value of the latest insert not erased since, and absent otherwise; and  *)
(* a lookup call returns exactly that.                                     *)
(***************************************************************************)
C2_LookupRefinesAbstract ==
    /\ \A t \in Live : \A k \in universe :
          lookupDefined(World, t, k) /\ lookup(World, t, k) = abstract[t][k]
    /\ Returned("lookup") => last.ret = abstract[last.t][last.key]

\* With every key in one bucket, a lookup returns a value that a later insert
\* of the key has put over the first one.
C2_Witness ==
    /\ hashKind = "constant"
    /\ Returned("lookup")
    /\ last.ret # nullopt
    /\ last.ret # make_optional(last.key)
    /\ size(World, last.t) > 1

(***************************************************************************)
(* C3: insert(k, v2) on a table that holds k (after insert(k, v1)) leaves  *)
(* size() as it was and makes lookup(k) return v2.                         *)
(***************************************************************************)
C3_UpdateKeepsSize ==
    (Returned("insert") /\ lookup(pre, last.t, last.key) # nullopt) =>
        /\ size(World, last.t) = size(pre, last.t)
        /\ lookup(World, last.t, last.key) = make_optional(last.value)

\* Two calls on a new table: insert(k, v1), then insert(k, v2) with v2 # v1.
C3_Witness ==
    /\ Returned("insert")
    /\ ops = 2
    /\ size(World, last.t) = 1
    /\ universe = OpKeys
    /\ lookup(pre, last.t, last.key) # nullopt
    /\ lookup(pre, last.t, last.key) # make_optional(last.value)

(***************************************************************************)
(* C4: erase(k) on a table holding k, wherever k's entry sits in its       *)
(* chain, takes one off size(), makes lookup(k) absent and leaves every    *)
(* other lookup unchanged; erase(k) on a table without k changes neither   *)
(* size() nor any lookup.                                                  *)
(***************************************************************************)
C4_EraseEffect ==
    Returned("erase") =>
        LET t == last.t
            k == last.key
        IN IF lookup(pre, t, k) # nullopt
           THEN /\ size(World, t) = size(pre, t) - 1
                /\ lookup(World, t, k) = nullopt
                /\ \A j \in universe \ {k} : lookup(World, t, j) = lookup(pre, t, j)
           ELSE /\ size(World, t) = size(pre, t)
                /\ \A j \in universe : lookup(World, t, j) = lookup(pre, t, j)

\* The erased entry had a predecessor and a successor in its chain.
C4_Witness ==
    /\ Returned("erase")
    /\ pre.tables[last.t].currentSize > 0
    /\ LET chain == ChainOf(pre.nodes,
                            Slot(pre, last.t, hash(pre, last.t, last.key)))
       IN \E i \in 2..(Len(chain) - 1) : pre.nodes[chain[i]].key = last.key

(***************************************************************************)
(* C5: while a script inserts distinct keys into a new table, insert(i, i), *)
(* every key inserted so far is found with the value it was inserted with, *)
(* however many rehashes have happened; and an insert that grows a table   *)
(* loses no entry, duplicates none and changes no other key's value.       *)
(***************************************************************************)
C5_GrowthKeepsEveryKey ==
    /\ ops = 0 =>
          \A t \in Live : \A k \in universe :
              lookup(World, t, k) =
                  IF abstract[t][k] # nullopt THEN make_optional(k) ELSE nullopt
    /\ (Returned("insert") /\ tables[last.t].capacity # pre.tables[last.t].capacity) =>
          /\ \A j \in universe \ {last.key} :
                lookup(World, last.t, j) = lookup(pre, last.t, j)
          /\ StoredKeys(World, last.t) = StoredKeys(pre, last.t) \cup {last.key}
          /\ EntryCount(World, last.t) = Cardinality(StoredKeys(World, last.t))

\* A script of distinct inserts has ended after two rehashes.
C5_Witness ==
    /\ ops = 0
    /\ script = << >>
    /\ fault = "none"
    /\ tables[1].capacity = 4 * defaultSize
    /\ size(World, 1) > defaultSize

(***************************************************************************)
(* C6: after copy construction or copy assignment from a source table, the *)
(* target has the source's size and the source's lookup result for every   *)
(* key, whatever the target held before, and the source is unchanged.      *)
(***************************************************************************)
C6_CopyMirrorsSource ==
    (Returned("copyConstruct") \/ Returned("copyAssign")) =>
        /\ size(World, last.t) = size(pre, last.other)
        /\ \A k \in universe : lookup(World, last.t, k) = lookup(pre, last.other, k)
        /\ tables[last.other] = pre.tables[last.other]
        /\ Chains(World, last.other) = Chains(pre, last.other)
        /\ \A n \in EntryNodes(pre, last.other) : nodes[n] = pre.nodes[n]

\* A copy assignment over a target that held other entries than the source.
C6_Witness ==
    /\ Returned("copyAssign")
    /\ size(pre, last.t) > 0
    /\ size(pre, last.other) > 0
    /\ Contents(pre, last.t) # Contents(pre, last.other)

(***************************************************************************)
(* C7: no node and no bucket array is reachable from two tables, and an    *)
(* insert or erase on one table (a copy or its original; updating a value, *)
(* erasing a copied key or growing the table) leaves the size, the lookup  *)
(* results, the fields and the chains of every other table unchanged.      *)
(***************************************************************************)
C7_CopyIndependence ==
    /\ \A t, u \in Live :
          t # u =>
            /\ EntryNodes(World, t) \cap EntryNodes(World, u) = {}
            /\ tables[t].buckets.buckets # nullptr =>
                  tables[t].buckets.buckets # tables[u].buckets.buckets
    /\ (Returned("insert") \/ Returned("erase")) =>
          \A u \in Tables \ {last.t} :
            /\ tables[u] = pre.tables[u]
            /\ size(World, u) = size(pre, u)
            /\ Contents(World, u) = Contents(pre, u)
            /\ Chains(World, u) = Chains(pre, u)

\* An insert that grows one of two tables that held the same entries.
C7_Witness ==
    /\ Returned("insert")
    /\ tables[last.t].capacity = 2 * pre.tables[last.t].capacity
    /\ \E u \in Live \ {last.t} :
          /\ size(pre, u) > 0
          /\ Contents(pre, u) = Contents(pre, last.t)
          /\ Contents(World, u) # Contents(World, last.t)

(***************************************************************************)
(* C8: after move construction the source has size 0, and the new table    *)
(* has the size the source had and the source's former lookup result for   *)
(* every key.                                                              *)
(***************************************************************************)
C8_MoveConstructTransfers ==
    Returned("moveConstruct") =>
        /\ size(World, last.other) = 0
        /\ size(World, last.t) = size(pre, last.other)
        /\ \A k \in universe : lookup(World, last.t, k) = lookup(pre, last.other, k)

\* A move construction from a table that held entries.
C8_Witness ==
    /\ Returned("moveConstruct")
    /\ size(pre, last.other) > 0
    /\ size(World, last.t) > 0

(***************************************************************************)
(* C9, as stated: after target = move(source) between distinct tables the  *)
(* source is empty, whatever the target held, and the target holds the     *)
(* source's former entries.                                                *)
(***************************************************************************)
C9_MoveAssignEmptiesSource ==
    (Returned("moveAssign") /\ last.t # last.other) =>
        /\ size(World, last.other) = 0
        /\ \A k \in universe : lookup(World, last.other, k) = nullopt
        /\ size(World, last.t) = size(pre, last.other)
        /\ \A k \in universe : lookup(World, last.t, k) = lookup(pre, last.other, k)

(***************************************************************************)
(* C9, amended: after target = move(source) between distinct tables the    *)
(* target holds the source's former entries and the source holds the       *)
(* target's former entries (the two tables are exchanged); the source is   *)
(* empty exactly when the target was empty before.                         *)
(***************************************************************************)
C9_MoveAssignSwaps ==
    (Returned("moveAssign") /\ last.t # last.other) =>
        /\ size(World, last.t) = size(pre, last.other)
        /\ \A k \in universe : lookup(World, last.t, k) = lookup(pre, last.other, k)
        /\ size(World, last.other) = size(pre, last.t)
        /\ \A k \in universe : lookup(World, last.other, k) = lookup(pre, last.t, k)
        /\ size(World, last.other) = 0 <=> size(pre, last.t) = 0

\* A move assignment between two tables that both held entries.
C9_Witness ==
    /\ Returned("moveAssign")
    /\ last.t # last.other
    /\ size(pre, last.t) > 0
    /\ size(pre, last.other) > 0
    /\ Contents(pre, last.t) # Contents(pre, last.other)

(***************************************************************************)
(* C10, as stated: insert(k, v) on an empty table, the source of a move    *)
(* and a copy of such a source included, is well defined (hash(k) is taken *)
(* modulo a non-zero capacity and addresses a slot of an allocated array), *)
(* and afterwards lookup(k) returns v and size() is 1.                     *)
(***************************************************************************)
C10_MovedFromReusable ==
    (last.op = "insert" /\ pre.tables[last.t].live /\ size(pre, last.t) = 0) =>
        /\ insertDefined(pre, last.t, last.key)
        /\ fault = "none"
        /\ lookup(World, last.t, last.key) = make_optional(last.value)
        /\ size(World, last.t) = 1

(***************************************************************************)
(* C11, as stated: in every reachable state every table, a moved-from one  *)
(* included, has capacity > 0; a new table has capacity 16; and the only   *)
(* change insert makes to capacity is doubling it.                         *)
(***************************************************************************)
C11_CapacityPositive ==
    /\ \A t \in Live : tables[t].capacity > 0
    /\ Returned("construct") => tables[last.t].capacity = defaultSize
    /\ Returned("insert") =>
          tables[last.t].capacity \in {pre.tables[last.t].capacity,
                                      2 * pre.tables[last.t].capacity}

(***************************************************************************)
(* C12: on a table with size() = 0 (new, emptied by erase, or emptied by a *)
(* move, which leaves capacity 0 and no bucket array) lookup(k) returns    *)
(* absent and erase(k) changes nothing, and neither call computes          *)
(* hash(k) mod capacity or reads the bucket array: both are defined even   *)
(* where the modulus is zero and the array is missing.                     *)
(***************************************************************************)
C12_EmptyShortCircuit ==
    /\ \A t \in Live :
          size(World, t) = 0 =>
            \A k \in universe :
              /\ lookupDefined(World, t, k)
              /\ eraseDefined(World, t, k)
              /\ lookup(World, t, k) = nullopt
              /\ erase(World, t, k) = World
    /\ (last.op \in {"lookup", "erase"} /\ size(pre, last.t) = 0) =>
          /\ fault = "none"
          /\ World = pre
          /\ last.op = "lookup" => last.ret = nullopt

\* A lookup on a moved-from table (capacity 0, no bucket array) has returned.
C12_Witness ==
    /\ Returned("lookup")
    /\ pre.tables[last.t].live
    /\ pre.tables[last.t].capacity = 0
    /\ pre.tables[last.t].buckets.buckets = nullptr

(***************************************************************************)
(* C13: assigning a table to itself, by copy assignment or by move         *)
(* assignment, changes nothing: size, capacity, the bucket array and every *)
(* node are as before, and nothing is allocated or released.               *)
(***************************************************************************)
C13_SelfAssignNoOp ==
    ((Returned("copyAssign") \/ Returned("moveAssign")) /\ last.t = last.other) =>
        /\ tables = pre.tables
        /\ arrays = pre.arrays
        /\ nodes = pre.nodes

\* A copy assignment of a table holding entries to itself.
C13_Witness ==
    /\ Returned("copyAssign")
    /\ last.t = last.other
    /\ size(pre, last.t) > 0

\* The node of table t that holds key (nullptr when there is none).
NodeOfKey(w, t, key) ==
    IF w.tables[t].currentSize = 0 THEN nullptr
    ELSE FindNode(w.nodes, Slot(w, t, hash(w, t, key)), key)

\* if(currentSize > capacity * loadFactor), as insert evaluates it on entry.
Loaded(w, t) ==
    LoadFactorDen * w.tables[t].currentSize > LoadFactorNum * w.tables[t].capacity

\* The last call was an insert of a key the table already held.
UpdateReturned == Returned("insert") /\ lookup(pre, last.t, last.key) # nullopt

\* The nodes are the same objects with the same keys, and the same values
\* except for the value written into node `updated`.
OnlyValueWritten(updated, value) ==
    /\ DOMAIN nodes = DOMAIN pre.nodes
    /\ \A n \in DOMAIN nodes :
          /\ nodes[n].key = pre.nodes[n].key
          /\ nodes[n].value = IF n = updated THEN value ELSE pre.nodes[n].value

(***************************************************************************)
(* C14, as stated: insert(k, v) on a table that already holds k, in every  *)
(* reachable state, the ones with size > capacity * 0.75 included, only    *)
(* overwrites the value in k's node: size, capacity, the bucket array and  *)
(* the position of every entry are unchanged and neither a node nor a      *)
(* bucket array is allocated.                                              *)
(***************************************************************************)
C14_UpdateInPlace ==
    UpdateReturned =>
        /\ OnlyValueWritten(NodeOfKey(pre, last.t, last.key), last.value)
        /\ tables = pre.tables
        /\ arrays = pre.arrays
        /\ \A n \in DOMAIN nodes : nodes[n].next = pre.nodes[n].next

(***************************************************************************)
(* C14, amended: insert(k, v) on a table that already holds k overwrites   *)
(* the value in k's node, allocates no node and leaves size, every key and *)
(* every other value unchanged.  When size <= capacity * 0.75 on entry,    *)
(* capacity, the bucket array and the position of every entry are          *)
(* unchanged as well.  When size > capacity * 0.75 on entry, the call      *)
(* first grows the table: capacity doubles, a new bucket array of the      *)
(* doubled length replaces the old one and the entries are relinked into   *)
(* it.                                                                     *)
(***************************************************************************)
C14_UpdateGrowsWhenLoaded ==
    UpdateReturned =>
        /\ OnlyValueWritten(NodeOfKey(pre, last.t, last.key), last.value)
        /\ size(World, last.t) = size(pre, last.t)
        /\ \A u \in Tables \ {last.t} : tables[u] = pre.tables[u]
        /\ IF Loaded(pre, last.t)
           THEN /\ tables[last.t].capacity = 2 * pre.tables[last.t].capacity
                /\ tables[last.t].buckets.capacity = tables[last.t].capacity
                /\ tables[last.t].buckets.buckets # pre.tables[last.t].buckets.buckets
                /\ pre.tables[last.t].buckets.buckets \notin DOMAIN arrays
                /\ Len(arrays[tables[last.t].buckets.buckets])
                      = 2 * Len(pre.arrays[pre.tables[last.t].buckets.buckets])
                /\ EntryNodes(World, last.t) = EntryNodes(pre, last.t)
           ELSE /\ tables = pre.tables
                /\ arrays = pre.arrays
                /\ \A n \in DOMAIN nodes : nodes[n].next = pre.nodes[n].next

\* An insert of a key the table held, made while size > capacity * 0.75.
C14_Witness ==
    /\ UpdateReturned
    /\ Loaded(pre, last.t)
    /\ lookup(pre, last.t, last.key) # make_optional(last.value)

(***************************************************************************)
(* C15: lookup(k) changes nothing: for every table state and every key,    *)
(* the fields of every table (size, capacity, bucket array), every slot    *)
(* and every node (chain order, keys, values) are the same after the call  *)
(* as before; and the value returned is a copy: after the caller has       *)
(* changed it, lookup(k) still gives what the table held.                  *)
(***************************************************************************)
C15_LookupChangesNothing ==
    /\ Returned("lookup") =>
          /\ tables = pre.tables
          /\ arrays = pre.arrays
          /\ nodes = pre.nodes
          /\ last.ret = lookup(pre, last.t, last.key)
    /\ last.op = "assignResult" =>
          /\ World = pre
          /\ lookup(World, last.t, last.key) = abstract[last.t][last.key]
          /\ lookup(World, last.t, last.key) # nullopt

\* The caller has given the returned value another value than the table holds.
C15_Witness ==
    /\ last.op = "assignResult"
    /\ fault = "none"
    /\ size(World, last.t) > 1
    /\ lookup(World, last.t, last.key) # last.ret

(***************************************************************************)
(* C16: the load-factor threshold is exceeded for at most one insertion:   *)
(* in every reachable state size <= floor(capacity * 0.75) + 1, and an     *)
(* insert called on a table with size > capacity * 0.75 doubles the        *)
(* capacity during the call, so that size <= capacity * 0.75 on return.    *)
(***************************************************************************)
C16_LoadedForOneInsert ==
    /\ \A t \in Live :
          size(World, t) <=
              ((LoadFactorNum * tables[t].capacity) \div LoadFactorDen) + 1
    /\ (Returned("insert") /\ Loaded(pre, last.t)) =>
          /\ tables[last.t].capacity = 2 * pre.tables[last.t].capacity
          /\ ~Loaded(World, last.t)

\* An insert of a new key into a table that was one entry over the threshold.
C16_Witness ==
    /\ Returned("insert")
    /\ Loaded(pre, last.t)
    /\ size(pre, last.t) =
          ((LoadFactorNum * pre.tables[last.t].capacity) \div LoadFactorDen) + 1
    /\ size(World, last.t) = size(pre, last.t) + 1

\* The last call was an insert that began with a growth step, rehash().
GrowthStep == Returned("insert") /\ Loaded(pre, last.t)

(***************************************************************************)
(* C17: one growth step replaces the bucket array by one of exactly twice  *)
(* the capacity and relinks every entry exactly once into it: the nodes    *)
(* after the step are the nodes before it (none allocated, copied,         *)
(* destroyed or lost), every key keeps its value, and size is unchanged.   *)
(***************************************************************************)
C17_GrowthRelinksEveryNode ==
    GrowthStep =>
        \A g \in {rehash(pre, last.t)} :
            LET t == last.t
                oldArray == pre.tables[t].buckets.buckets
                newArray == g.tables[t].buckets.buckets
            IN /\ g.tables[t].capacity = 2 * pre.tables[t].capacity
               /\ g.tables[t].buckets.capacity = 2 * pre.tables[t].capacity
               /\ Len(g.arrays[newArray]) = 2 * Len(pre.arrays[oldArray])
               /\ DOMAIN g.arrays = (DOMAIN pre.arrays \ {oldArray}) \cup {newArray}
               /\ DOMAIN g.nodes = DOMAIN pre.nodes
               /\ \A n \in DOMAIN pre.nodes :
                     /\ g.nodes[n].key = pre.nodes[n].key
                     /\ g.nodes[n].value = pre.nodes[n].value
               /\ EntryNodes(g, t) = EntryNodes(pre, t)
               /\ EntryCount(g, t) = Cardinality(EntryNodes(g, t))
               /\ size(g, t) = size(pre, t)
               /\ \A k \in universe : lookup(g, t, k) = lookup(pre, t, k)
               /\ tables[t].capacity = g.tables[t].capacity
               /\ tables[t].buckets = g.tables[t].buckets
               /\ EntryNodes(g, t) \subseteq EntryNodes(World, t)

\* A growth step on a table whose entries shared chains before and after it.
C17_Witness ==
    /\ GrowthStep
    /\ \E i \in 1..tables[last.t].capacity :
          Len(Chains(World, last.t)[i]) > 2
    /\ \E i \in 1..pre.tables[last.t].capacity :
          Len(Chains(pre, last.t)[i]) > 2

(***************************************************************************)
(* C18: in every reachable state, each entry with key K is linked in the   *)
(* chain at index hash(K) mod capacity for the table's current capacity,   *)
(* also right after a growth step, a copy or a move: no entry is left at   *)
(* an index computed with an earlier capacity.                             *)
(***************************************************************************)
C18_EntriesAtCurrentIndex ==
    \A t \in Live :
        /\ size(World, t) > 0 => tables[t].capacity > 0
        /\ \A c \in {Chains(World, t)} :
              \A i \in 1..Len(c) : \A j \in 1..Len(c[i]) :
                  Hash(nodes[c[i][j]].key) % tables[t].capacity = i - 1

\* A copy or a move has just handed over the entries of a grown table, one
\* of which sits at an index its key did not have under the first capacity.
C18_Witness ==
    /\ last.op \in {"copyConstruct", "copyAssign", "moveConstruct", "moveAssign"}
    /\ fault = "none"
    /\ last.t # last.other
    /\ tables[last.t].capacity > defaultSize
    /\ \E i \in (defaultSize + 1)..tables[last.t].capacity :
          Chains(World, last.t)[i] # << >>

\* The positions <<slot, place in chain>> of the entries of table t.
Positions(w, t) ==
    LET c == Chains(w, t)
    IN UNION {{<<i, j>> : j \in 1..Len(c[i])} : i \in 1..Len(c)}

(***************************************************************************)
(* C19: in every reachable state every key appears in at most one chain    *)
(* and at most once in that chain: no sequence of insert, erase, growth,   *)
(* copy and move gives a table two entries with equal keys.                *)
(***************************************************************************)
C19_NoDuplicateKeys ==
    \A t \in Live :
        \A c \in {Chains(World, t)} :
            \A p, q \in Positions(World, t) :
                p # q => nodes[c[p[1]][p[2]]].key # nodes[c[q[1]][q[2]]].key

\* An insert of a key the table held behind other entries of its chain, made
\* by a call that grew the table first.
C19_Witness ==
    /\ UpdateReturned
    /\ Loaded(pre, last.t)
    /\ Slot(pre, last.t, hash(pre, last.t, last.key))
          # NodeOfKey(pre, last.t, last.key)
    /\ Slot(World, last.t, hash(World, last.t, last.key))
          # NodeOfKey(World, last.t, last.key)

\* In the chains c, node a comes before node b in one chain.
Precedes(c, a, b) ==
    \E i \in 1..Len(c) : \E j, k \in 1..Len(c[i]) :
        j < k /\ c[i][j] = a /\ c[i][k] = b

\* In the chains c, nodes a and b are in one chain.
Together(c, a, b) == Precedes(c, a, b) \/ Precedes(c, b, a)

(***************************************************************************)
(* C20, as stated: growth keeps the relative order of entries within       *)
(* buckets: if entry A precedes entry B in a chain before a rehash and     *)
(* both land in the same chain after it, A still precedes B.               *)
(***************************************************************************)
C20_GrowthKeepsOrder ==
    GrowthStep =>
        \A old \in {Chains(pre, last.t)} : \A new \in {Chains(World, last.t)} :
            \A i \in 1..Len(old) : \A j, k \in 1..Len(old[i]) :
                (j < k /\ Together(new, old[i][j], old[i][k])) =>
                    Precedes(new, old[i][j], old[i][k])

(***************************************************************************)
(* C20, amended: growth reverses the relative order of entries within      *)
(* buckets: if entry A precedes entry B in a chain before a rehash and     *)
(* both land in the same chain after it, then B precedes A in that chain.  *)
(***************************************************************************)
C20_GrowthReversesOrder ==
    GrowthStep =>
        \A old \in {Chains(pre, last.t)} : \A new \in {Chains(World, last.t)} :
            \A i \in 1..Len(old) : \A j, k \in 1..Len(old[i]) :
                (j < k /\ Together(new, old[i][j], old[i][k])) =>
                    Precedes(new, old[i][k], old[i][j])

\* A growth step after which two entries of one old chain share a chain
\* again, under std::hash<int>.
C20_Witness ==
    /\ GrowthStep
    /\ hashKind = "identity"
    /\ \E a, b \in EntryNodes(pre, last.t) :
          /\ Precedes(Chains(pre, last.t), a, b)
          /\ Together(Chains(World, last.t), a, b)

\* The last call was an insert of a key the table did not hold.
NewKeyReturned == Returned("insert") /\ lookup(pre, last.t, last.key) = nullopt

(***************************************************************************)
(* C21: insert(k, v) with k not present allocates exactly one node, links  *)
(* it as the new head of the chain at index hash(k) mod capacity with the  *)
(* former head as its next, adds exactly one to size, and leaves every     *)
(* other chain, and the entries already in that chain with their order,    *)
(* as they were after the growth step the call may have begun with.        *)
(***************************************************************************)
C21_NewEntryIsHead ==
    NewKeyReturned =>
        \A g \in {growIfLoaded(pre, last.t)} :
        \A old \in {Chains(g, last.t)} : \A new \in {Chains(World, last.t)} :
            LET t == last.t
                index == hash(g, t, last.key)
                head == Slot(World, t, index)
            IN /\ DOMAIN nodes = DOMAIN g.nodes \cup {head}
               /\ head \notin DOMAIN g.nodes
               /\ nodes[head] = [key |-> last.key, value |-> last.value,
                                 next |-> Slot(g, t, index)]
               /\ \A n \in DOMAIN g.nodes : nodes[n] = g.nodes[n]
               /\ DOMAIN arrays = DOMAIN g.arrays
               /\ tables[t].capacity = g.tables[t].capacity
               /\ tables[t].buckets = g.tables[t].buckets
               /\ index = Hash(last.key) % tables[t].capacity
               /\ new[index + 1] = <<head>> \o old[index + 1]
               /\ \A i \in 1..Len(new) : i # index + 1 => new[i] = old[i]
               /\ size(World, t) = size(pre, t) + 1

\* A new key has been put in front of a chain of two or more entries, by a
\* call that did not grow the table.
C21_Witness ==
    /\ NewKeyReturned
    /\ ~Loaded(pre, last.t)
    /\ Len(ChainOf(nodes, Slot(World, last.t, hash(World, last.t, last.key)))) > 2

(***************************************************************************)
(* Allocation failure.  Each new-expression of insert and of the copy      *)
(* operations may throw std::bad_alloc; the exception leaves the public    *)
(* call after the destructors of the locals have run.  fault records which *)
(* new-expression threw, and the run is observed at that point.            *)
(***************************************************************************)
\* The new-expressions insert(key, value) reaches on table t: the array of
\* BucketsHolder::rehash when the table is over its load factor, and the
\* Node of NodeHolder when the scan finds no equal key.
InsertAllocations(w, t, key) ==
    (IF Loaded(w, t) THEN {"array"} ELSE {})
    \cup (IF /\ insertDefined(w, t, key)
              /\ \E g \in {growIfLoaded(w, t)} :
                    FindNode(g.nodes, Slot(g, t, hash(g, t, key)), key) = nullptr
           THEN {"node"}
           ELSE {})

\* insert(key, value) whose new-expression `failing` throws.  The array is
\* the first statement of BucketsHolder::rehash: nothing was written.  The
\* Node is allocated after the growth step and the scan.
insertThrows(w, t, key, failing) ==
    IF failing = "array" THEN w ELSE growIfLoaded(w, t)

\* The new-expressions of copy(other) after tempBuckets: <<i, k>> stands for
\* the Node cloned from node k + 1 of the chain in other.buckets[i].
CopyAllocations(w, other) ==
    LET chains == Chains(w, other)
    IN UNION {{<<i - 1, k>> : k \in 0..(Len(chains[i]) - 1)} : i \in 1..Len(chains)}

\* The number of Nodes copy(other) has cloned when `failing` throws.
ClonedBefore(w, other, failing) ==
    IF failing = << >> THEN 0
    ELSE Cardinality({a \in CopyAllocations(w, other) :
                        \/ a[1] < failing[1]
                        \/ a[1] = failing[1] /\ a[2] < failing[2]})

\* copy(other) up to the new-expression that throws: tempBuckets is built,
\* slots 0..i-1 of other and the first k nodes of slot i are cloned.
copyUntil(w, t, other, i, k) ==
    LET capacity == w.tables[t].capacity
        tempAddr == NewAddress(w.arrays)
        w1 == [w EXCEPT !.arrays = (tempAddr :> NewBuckets(capacity)) @@ w.arrays]
        chain == ChainOf(w.nodes, Slot(w, other, i))
    IN [w |-> Then(copyBuckets(w1, tempAddr, other, 0, i),
                   LAMBDA w2 : copyChain([w |-> w2, prev |-> nullptr], tempAddr, i,
                                         chain, 0, k).w),
        tempBuckets |-> [capacity |-> capacity, buckets |-> tempAddr]]

\* Mutant of copyThrows: the clones made before the throw are not released.
copyThrows_leaks(w, t, other, failing) ==
    IF failing = << >> THEN w
    ELSE copyUntil(w, t, other, failing[1], failing[2]).w

\* copy(other) whose new-expression `failing` throws: << >> is the array of
\* tempBuckets (nothing was built), <<i, k>> a Node.  A throwing new Node
\* leaves no NodeHolder behind; ~BucketsHolder of tempBuckets runs clear()
\* while the exception leaves copy, and buckets is not assigned.
copyThrows(w, t, other, failing) ==
    IF failing = << >> THEN w
    ELSE Then(copyUntil(w, t, other, failing[1], failing[2]),
              LAMBDA built : HolderClear(built.w, built.tempBuckets))

\* CeTuHashMap(const CeTuHashMap& other) with a throwing copy: the members
\* are destroyed (buckets is still the empty holder) and no object exists.
copyConstructThrows(w, t, other, failing) ==
    LET w1 == [w EXCEPT !.tables[t] = [live |-> TRUE,
                                       buckets |-> EmptyHolder,
                                       currentSize |-> w.tables[other].currentSize,
                                       capacity |-> w.tables[other].capacity]]
    IN Then(copyThrows(w1, t, other, failing),
            LAMBDA w2 : destroy(w2, t))

\* operator=(const CeTuHashMap& other) with a throwing copy: capacity and
\* currentSize were assigned before copy(other) was called.
copyAssignThrows(w, t, other, failing) ==
    LET w1 == [w EXCEPT !.tables[t].capacity = w.tables[other].capacity,
                        !.tables[t].currentSize = w.tables[other].currentSize]
    IN copyThrows(w1, t, other, failing)

InsertThrows(t, key, value) ==
    /\ Running
    /\ tables[t].live
    /\ \E failing \in InsertAllocations(World, t, key) :
          /\ \E w \in {insertThrows(World, t, key, failing)} : Commit(w)
          /\ fault' = IF failing = "array" THEN "bad_alloc_array" ELSE "bad_alloc_node"
    /\ last' = Call("insert", t, 0, key, value, nullopt)
    /\ UNCHANGED abstract
    /\ Counted

\* last.value is the number of nodes cloned before the throw.
CopyConstructThrows(t, other) ==
    /\ Running
    /\ ~tables[t].live /\ tables[other].live
    /\ \E failing \in {<< >>} \cup CopyAllocations(World, other) :
          /\ \E w \in {copyConstructThrows(World, t, other, failing)} : Commit(w)
          /\ fault' = IF failing = << >> THEN "bad_alloc_array" ELSE "bad_alloc_node"
          /\ last' = Call("copyConstruct", t, other, 0,
                          ClonedBefore(World, other, failing),
                          nullopt)
    /\ UNCHANGED abstract
    /\ Counted

CopyAssignThrows(t, other) ==
    /\ Running
    /\ tables[t].live /\ tables[other].live
    /\ t # other
    /\ \E failing \in {<< >>} \cup CopyAllocations(World, other) :
          /\ \E w \in {copyAssignThrows(World, t, other, failing)} : Commit(w)
          /\ fault' = IF failing = << >> THEN "bad_alloc_array" ELSE "bad_alloc_node"
          /\ last' = Call("copyAssign", t, other, 0,
                          ClonedBefore(World, other, failing),
                          nullopt)
    /\ UNCHANGED abstract
    /\ Counted

NextAlloc ==
    \/ Next
    \/ \E t \in Tables, key \in OpKeys, value \in Values : InsertThrows(t, key, value)
    \/ \E t, other \in Tables : CopyConstructThrows(t, other)
    \/ \E t, other \in Tables : CopyAssignThrows(t, other)

SpecAlloc == Init /\ [][NextAlloc]_vars

\* std::bad_alloc left the last call, which was `op`.
Threw(op) == last.op = op /\ fault \in {"bad_alloc_array", "bad_alloc_node"}

\* The keys and values met by traversing the chains of table t, slot by slot.
Entries(w, t) ==
    LET c == Chains(w, t)
    IN [i \in 1..Len(c) |->
          [j \in 1..Len(c[i]) |-> <<w.nodes[c[i][j]].key, w.nodes[c[i][j]].value>>]]

\* Table t of w is what table t of v was: fields, bucket array and entries.
SameTable(w, t, v) ==
    /\ w.tables[t] = v.tables[t]
    /\ Chains(w, t) = Chains(v, t)
    /\ Entries(w, t) = Entries(v, t)

\* Table t of w mirrors table other: size, capacity, an array of that
\* capacity and other's entries slot by slot.
Mirrors(w, t, other) ==
    /\ w.tables[t].currentSize = w.tables[other].currentSize
    /\ w.tables[t].capacity = w.tables[other].capacity
    /\ w.tables[t].buckets.capacity = w.tables[t].capacity
    /\ Entries(w, t) = Entries(w, other)

(***************************************************************************)
(* C22: when an allocation fails during the copy assignment target =       *)
(* source, the target is fully old (its size, capacity, bucket array and   *)
(* entries are those it had before the assignment) or fully new (they      *)
(* mirror the source).                                                     *)
(***************************************************************************)
C22_FailedAssignAllOrNothing ==
    Threw("copyAssign") =>
        \/ SameTable(World, last.t, pre)
        \/ Mirrors(World, last.t, last.other)

(***************************************************************************)
(* C23: a failed growth or a failed copy leaves the table it reads from    *)
(* as it was.  When the new bucket array of a growth step cannot be        *)
(* allocated, the table of the insert call has the size, capacity, bucket  *)
(* array and entries it had before the call.  When an allocation fails in  *)
(* a copy construction or copy assignment, the source is unchanged and the *)
(* nodes cloned so far, with the temporary array, are released.            *)
(***************************************************************************)
C23_FailureKeepsSource ==
    /\ last.op = "insert" /\ fault = "bad_alloc_array" =>
          /\ SameTable(World, last.t, pre)
          /\ nodes = pre.nodes /\ arrays = pre.arrays
    /\ Threw("copyConstruct") \/ Threw("copyAssign") =>
          /\ SameTable(World, last.other, pre)
          /\ \A n \in EntryNodes(pre, last.other) : nodes[n] = pre.nodes[n]
          /\ DOMAIN nodes = DOMAIN pre.nodes
          /\ DOMAIN arrays = DOMAIN pre.arrays

\* A copy assignment failed on the Node of a chain's second entry, after
\* three or more nodes had been cloned.
C23_Witness ==
    /\ Threw("copyAssign")
    /\ fault = "bad_alloc_node"
    /\ last.value >= 3
    /\ \E i \in 1..Len(Chains(World, last.other)) :
          Len(Chains(World, last.other)[i]) >= 2

\* The live tables whose chains reach node n, and those whose holder has
\* array a.
OwnersOfNode(n) == {t \in Live : n \in EntryNodes(World, t)}
OwnersOfArray(a) == {t \in Live : tables[t].buckets.buckets = a}

\* What the last call released, and what it allocated.
ReleasedNodes == DOMAIN pre.nodes \ DOMAIN nodes
ReleasedArrays == DOMAIN pre.arrays \ DOMAIN arrays

\* The array of table t in w, as a set (empty for a holder without array).
ArrayOf(w, t) == {w.tables[t].buckets.buckets} \ {nullptr}

(***************************************************************************)
(* C24: every allocated node is reached by the chains of exactly one live  *)
(* table, once, and every allocated bucket array is the array of exactly   *)
(* one live table; what a live table reaches is allocated.  So a delete    *)
(* always meets an allocated address that no other table will delete       *)
(* again.  erase releases exactly the removed node, copy assignment        *)
(* exactly the target's previous nodes and array, growth exactly the old   *)
(* array, destruction exactly the table's nodes and array, which for a     *)
(* moved-from table is nothing; when no table is live, nothing is          *)
(* allocated.                                                              *)
(***************************************************************************)
C24_SingleOwnerReleasedOnce ==
    /\ \A n \in DOMAIN nodes : Cardinality(OwnersOfNode(n)) = 1
    /\ \A a \in DOMAIN arrays : Cardinality(OwnersOfArray(a)) = 1
    /\ \A t \in Live :
          /\ EntryNodes(World, t) \subseteq DOMAIN nodes
          /\ ArrayOf(World, t) \subseteq DOMAIN arrays
          /\ EntryCount(World, t) = Cardinality(EntryNodes(World, t))
    /\ Returned("erase") =>
          /\ ReleasedNodes = {NodeOfKey(pre, last.t, last.key)} \ {nullptr}
          /\ ReleasedArrays = {}
    /\ Returned("copyAssign") /\ last.t # last.other =>
          /\ ReleasedNodes = EntryNodes(pre, last.t)
          /\ ReleasedArrays = ArrayOf(pre, last.t)
    /\ Returned("insert") =>
          /\ ReleasedNodes = {}
          /\ ReleasedArrays = IF Loaded(pre, last.t) THEN ArrayOf(pre, last.t) ELSE {}
    /\ Returned("destroy") =>
          /\ ReleasedNodes = EntryNodes(pre, last.t)
          /\ ReleasedArrays = ArrayOf(pre, last.t)
          /\ pre.tables[last.t].buckets.buckets = nullptr =>
                nodes = pre.nodes /\ arrays = pre.arrays
    /\ last.op \in {"construct", "copyConstruct", "moveConstruct", "moveAssign",
                    "lookup", "assignResult"} /\ fault = "none" =>
          ReleasedNodes = {} /\ ReleasedArrays = {}
    /\ Live = {} => nodes = << >> /\ arrays = << >>

\* A moved-from table has been destroyed while the table it was moved into
\* holds entries.
C24_Witness ==
    /\ Returned("destroy")
    /\ pre.tables[last.t].live
    /\ pre.tables[last.t].buckets.buckets = nullptr
    /\ \E t \in Live : EntryNodes(World, t) # {}

\* The length of the array the holder of table t has allocated.
AllocatedLength(w, t) ==
    IF w.tables[t].buckets.buckets = nullptr THEN 0
    ELSE Len(w.arrays[w.tables[t].buckets.buckets])

(***************************************************************************)
(* C25: after every public operation that returns -- construction, insert  *)
(* with or without growth, erase, copy and move construction, copy and     *)
(* move assignment, for the source and for the target -- the capacity of   *)
(* the table equals the capacity of its bucket holder, which is the length *)
(* of the allocated array; so wherever hash(key) % capacity is defined it  *)
(* lies inside the array.                                                  *)
(***************************************************************************)
C25_CapacitiesAgree ==
    \A t \in Live :
        /\ tables[t].capacity = tables[t].buckets.capacity
        /\ tables[t].buckets.capacity = AllocatedLength(World, t)
        /\ tables[t].capacity # 0 =>
              \A k \in universe : hash(World, t, k) < AllocatedLength(World, t)

\* A move assignment has exchanged the arrays of two tables of different
\* capacities, the larger one grown by inserts.
C25_Witness ==
    /\ Returned("moveAssign")
    /\ tables[last.t].capacity # tables[last.other].capacity
    /\ tables[last.t].capacity >= defaultSize
    /\ tables[last.other].capacity > defaultSize
    /\ EntryNodes(World, last.other) # {}

====
